---- MODULE Spec2Model ----
(***************************************************************************)
(* A model of tjson (src/tjson.cpp): the escaper, the regex tokenizer, the *)
(* recursive-descent reader, the Val tree with its mutating accessors and  *)
(* the writer.  Text is a sequence of one-character strings, indexed from  *)
(* 1; a pointer range [begin, end) is a pair of indices with end exclusive.*)
(***************************************************************************)
EXTENDS Integers, Sequences, FiniteSets, TLC

VARIABLES pc, in, text, ret, out_err, root, out1, out2, op, acc

vars == <<pc, in, text, ret, out_err, root, out1, out2, op, acc>>

\* ------------------------------------------------------------------------
\* Characters

QUOTE == "\""
BSLASH == "\\"
NL == "\n"

Digits == <<"0", "1", "2", "3", "4", "5", "6", "7", "8", "9">>

RECURSIVE Dec(_)
\* operator<<(uint64_t): the decimal digits of n
Dec(n) == IF n < 10 THEN <<Digits[n + 1]>> ELSE Dec(n \div 10) \o <<Digits[(n % 10) + 1]>>

\* ------------------------------------------------------------------------
\* escape / unescape

RECURSIVE escape_body(_)
escape_body(s) ==
  IF s = <<>> THEN <<>>
  ELSE (IF Head(s) = QUOTE \/ Head(s) = BSLASH THEN <<BSLASH, Head(s)>> ELSE <<Head(s)>>)
       \o escape_body(Tail(s))

escape_plain(s) == <<QUOTE>> \o s \o <<QUOTE>>

escape(s) == <<QUOTE>> \o escape_body(s) \o <<QUOTE>>

RECURSIVE unescape_loop(_, _, _, _, _)
\* the for loop of unescape: itr over [itr, end), carrying in_escape and wip
unescape_loop(s, itr, end, in_escape, wip) ==
  IF itr = end THEN [in_escape |-> in_escape, wip |-> wip]
  ELSE IF ~in_escape /\ s[itr] = BSLASH
       THEN unescape_loop(s, itr + 1, end, TRUE, wip)
       ELSE unescape_loop(s, itr + 1, end, FALSE, Append(wip, s[itr]))

unescape_nodangle(s, out) ==
  IF Len(s) < 2 THEN [ok |-> FALSE, out |-> out]
  ELSE IF s[1] # QUOTE \/ s[Len(s)] # QUOTE THEN [ok |-> FALSE, out |-> out]
  ELSE [ok |-> TRUE, out |-> unescape_loop(s, 2, Len(s), FALSE, <<>>).wip]

\* unescape(in, out): [ok, out], out being *out after the call
unescape(s, out) ==
  IF Len(s) < 2 THEN [ok |-> FALSE, out |-> out]
  ELSE IF s[1] # QUOTE \/ s[Len(s)] # QUOTE THEN [ok |-> FALSE, out |-> out]
  ELSE LET r == unescape_loop(s, 2, Len(s), FALSE, <<>>)
       IN IF r.in_escape THEN [ok |-> FALSE, out |-> out]
          ELSE [ok |-> TRUE, out |-> r.wip]

\* ------------------------------------------------------------------------
\* Tokens and the four regular expressions

WhitespaceChars == {" ", "\t", "\n", "\r"}

WordChars ==
  {"a", "b", "c", "d", "e", "f", "g", "h", "i", "j", "k", "l", "m",
   "n", "o", "p", "q", "r", "s", "t", "u", "v", "w", "x", "y", "z",
   "A", "B", "C", "D", "E", "F", "G", "H", "I", "J", "K", "L", "M",
   "N", "O", "P", "Q", "R", "S", "T", "U", "V", "W", "X", "Y", "Z",
   "0", "1", "2", "3", "4", "5", "6", "7", "8", "9", "_", "+", "-", "."}

SymbolChars == {"{", ":", ",", "}", "[", "]"}

\* the characters an ECMAScript '.' does not match
LineTerminators == {"\n", "\r"}

RECURSIVE RunLen(_, _, _, _)
\* the length of the longest run of characters of S in t[i, end)
RunLen(t, i, end, S) ==
  IF i < end /\ t[i] \in S THEN 1 + RunLen(t, i + 1, end, S) ELSE 0

\* each RE_x(t, begin, end): the length of the match of the regex anchored
\* at begin (match_continuous) in t[begin, end), 0 when there is none
RE_WHITESPACE(t, begin, end) == RunLen(t, begin, end, WhitespaceChars)

RECURSIVE StringBody(_, _, _)
\* after the opening quote: ([^"\\] | \\.)* then the closing quote; the
\* index past the closing quote, 0 when the range ends first or a backslash
\* is followed by a line terminator or by nothing
StringBody(t, i, end) ==
  IF i >= end THEN 0
  ELSE IF t[i] = QUOTE THEN i + 1
  ELSE IF t[i] = BSLASH
       THEN IF i + 1 < end /\ t[i + 1] \notin LineTerminators
            THEN StringBody(t, i + 2, end)
            ELSE 0
  ELSE StringBody(t, i + 1, end)

RE_STRING(t, begin, end) ==
  IF begin < end /\ t[begin] = QUOTE
  THEN LET e == StringBody(t, begin + 1, end) IN IF e = 0 THEN 0 ELSE e - begin
  ELSE 0

RE_WORD(t, begin, end) == RunLen(t, begin, end, WordChars)

RE_SYMBOL(t, begin, end) == IF begin < end /\ t[begin] \in SymbolChars THEN 1 ELSE 0

\* Token::str()
TokStr(t, tok) == SubSeq(t, tok.begin, tok.end - 1)

\* Token::operator==(const char*)
TokEq(t, tok, r) ==
  IF Len(r) # tok.end - tok.begin THEN FALSE ELSE TokStr(t, tok) = r

\* TokenGen's constructor: meta_token_{begin, end, 1, 1, MALFORMED}
TokenGen(t) ==
  [begin |-> 1, end |-> Len(t) + 1, line_num |-> 1, line_pos |-> 1, type |-> "MALFORMED"]

RECURSIVE Advance_no_reset(_, _, _, _, _)
Advance_no_reset(t, itr, end, line_num, line_pos) ==
  IF itr = end THEN [line_num |-> line_num, line_pos |-> line_pos]
  ELSE IF t[itr] = NL
       THEN Advance_no_reset(t, itr + 1, end, line_num + 1, line_pos + 1)
       ELSE Advance_no_reset(t, itr + 1, end, line_num, line_pos + 1)

RECURSIVE Advance(_, _, _, _, _)
\* the for loop of Next: line_num and line_pos after the characters [itr, end)
Advance(t, itr, end, line_num, line_pos) ==
  IF itr = end THEN [line_num |-> line_num, line_pos |-> line_pos]
  ELSE IF t[itr] = NL
       THEN Advance(t, itr + 1, end, line_num + 1, 0 + 1)
       ELSE Advance(t, itr + 1, end, line_num, line_pos + 1)

\* the token at the cursor: the classes in order, MALFORMED keeps meta's end
Classify(t, meta) ==
  LET ws == RE_WHITESPACE(t, meta.begin, meta.end)
      st == RE_STRING(t, meta.begin, meta.end)
      wd == RE_WORD(t, meta.begin, meta.end)
      sy == RE_SYMBOL(t, meta.begin, meta.end)
  IN IF ws > 0 THEN [meta EXCEPT !.end = meta.begin + ws, !.type = "WHITESPACE"]
     ELSE IF st > 0 THEN [meta EXCEPT !.end = meta.begin + st, !.type = "STRING"]
     ELSE IF wd > 0 THEN [meta EXCEPT !.end = meta.begin + wd, !.type = "WORD"]
     ELSE IF sy > 0 THEN [meta EXCEPT !.end = meta.begin + sy, !.type = "SYMBOL"]
     ELSE meta

\* TokenGen::Next: [ret, gen], gen being the generator after the call
Next(t, meta) ==
  LET r == Classify(t, meta)
      a == Advance(t, r.begin, r.end, meta.line_num, meta.line_pos)
  IN [ret |-> r,
      gen |-> [meta EXCEPT !.begin = r.end, !.line_num = a.line_num, !.line_pos = a.line_pos]]

RECURSIVE NextNonWS(_, _)
NextNonWS(t, meta) ==
  LET n == Next(t, meta)
  IN IF n.ret.type # "WHITESPACE" THEN n ELSE NextNonWS(t, n.gen)

\* ------------------------------------------------------------------------
\* Val: the tree node.  dict is a function from keys to children, list a
\* sequence of children (list_[i] is list[i + 1]), val the raw text.

NewVal == [is_dict |-> FALSE, is_list |-> FALSE, dict |-> <<>>, list |-> <<>>, val |-> <<>>]

reset_keeps_list(v) == [v EXCEPT !.dict = <<>>, !.is_dict = FALSE, !.is_list = FALSE, !.val = <<>>]

\* Val::reset
reset(v) == [v EXCEPT !.dict = <<>>, !.is_dict = FALSE, !.list = <<>>, !.is_list = FALSE, !.val = <<>>]

\* Val::set_dict (tjson.h): promotes the node to Object mode if it was not
\* already, clearing the content of the other variants
set_dict(v) == IF v.is_dict THEN v ELSE [reset(v) EXCEPT !.is_dict = TRUE]

\* Val::set_list (tjson.h): the same for Array mode
set_list(v) == IF v.is_list THEN v ELSE [reset(v) EXCEPT !.is_list = TRUE]

\* `v.val() = s` (tjson.h): the node becomes a Scalar holding s, a node
\* having one mode at a time
set_val(v, s) == [reset(v) EXCEPT !.val = s]

\* Val::operator[](const std::string&): the node after the call; the
\* reference returned is to dict[x]
key_access(v, x) == [set_dict(v) EXCEPT !.dict = (x :> NewVal) @@ @]

RECURSIVE push_until(_, _)
\* the while loop of operator[](size_t)
push_until(list, i) == IF i >= Len(list) THEN push_until(Append(list, NewVal), i) ELSE list

index_access_one_more(v, i) == [set_list(v) EXCEPT !.list = push_until(@, i + 1)]

\* Val::operator[](const size_t): the node after the call; the reference
\* returned is to list[i + 1]
index_access(v, i) == [set_list(v) EXCEPT !.list = push_until(@, i)]

key_assign_keep_first(v, x, child) ==
  IF v.is_dict /\ x \in DOMAIN v.dict THEN v ELSE [key_access(v, x) EXCEPT !.dict[x] = child]

\* `cur[key_name] = std::move(child)`
key_assign(v, x, child) == [key_access(v, x) EXCEPT !.dict[x] = child]

\* `cur[i] = std::move(child)`
index_assign(v, i, child) == [index_access(v, i) EXCEPT !.list[i + 1] = child]

\* ------------------------------------------------------------------------
\* read

\* std::unique_ptr<Val>
Nullptr == [null |-> TRUE]
Ptr(v) == [null |-> FALSE, val |-> v]

S_ErrorL == <<"E", "r", "r", "o", "r", ":", " ", "L">>
S_Expected == <<":", " ", "E", "x", "p", "e", "c", "t", "e", "d", " ">>
S_Got == <<",", " ", "g", "o", "t", ":", " ", "\"">>
S_End == <<"\"", ".">>
S_STRING == <<"S", "T", "R", "I", "N", "G">>
S_NOT_MALFORMED == <<"!", "M", "A", "L", "F", "O", "R", "M", "E", "D">>

\* the length fn_err cuts the offending token's text to
ERR_STR_MAX == 20

fn_err_silent(t, tok, expected) == <<>>

\* fn_err: the message it stores in *out_err
fn_err(t, tok, expected) ==
  LET s == TokStr(t, tok)
      str == IF Len(s) > ERR_STR_MAX THEN SubSeq(s, 1, ERR_STR_MAX) ELSE s
  IN S_ErrorL \o Dec(tok.line_num) \o <<":">> \o Dec(tok.line_pos) \o S_Expected
     \o expected \o S_Got \o str \o S_End

\* fn_is_expected with an expected_str: [ok, out_err]
fn_is_expected(t, tok, expected_str, err) ==
  IF TokEq(t, tok, expected_str) THEN [ok |-> TRUE, out_err |-> err]
  ELSE [ok |-> FALSE, out_err |-> fn_err(t, tok, <<QUOTE>> \o expected_str \o <<QUOTE>>)]

\* fn_is_expected with expected_str = nullptr
fn_is_expected_any(t, tok, err) ==
  IF tok.type # "MALFORMED" THEN [ok |-> TRUE, out_err |-> err]
  ELSE [ok |-> FALSE, out_err |-> fn_err(t, tok, S_NOT_MALFORMED)]

Failed(gen, err) == [ret |-> Nullptr, gen |-> gen, out_err |-> err]

\* read(TokenGen*, std::string*) is written as a chain of operators, one per
\* step of the function, each handed what the steps before it computed: t is
\* the text, err is *out_err, cur the Val under construction, and k, colon,
\* v, comma, peek and n are the locals of those names ([ret, gen] for a
\* token with the generator after it, [ret, gen, out_err] for a nested read).
\* Each step gives [ret, gen, out_err]: the pointer returned, and *tok_gen
\* and *out_err after the call.

RECURSIVE read(_, _, _), read_dict_loop(_, _, _, _), read_list_loop(_, _, _, _, _)

\* the object loop after `cur[key_name] = std::move(v)`: '}' ends it, ','
\* continues it, anything else is an error
read_dict_comma(t, comma, e2, err, cur) ==
  IF TokEq(t, comma.ret, <<"}">>) THEN [ret |-> Ptr(cur), gen |-> comma.gen, out_err |-> err]
  ELSE IF ~e2.ok THEN Failed(comma.gen, e2.out_err)
  ELSE read_dict_loop(t, comma.gen, err, cur)

read_dict_next(t, comma, err, cur) ==
  read_dict_comma(t, comma, fn_is_expected(t, comma.ret, <<",">>, err), err, cur)

\* the object loop after the value was read
read_dict_value(t, k, v, cur) ==
  IF v.ret.null THEN Failed(v.gen, v.out_err)
  ELSE read_dict_next(t, NextNonWS(t, v.gen), v.out_err,
                      key_assign(cur, unescape(TokStr(t, k.ret), <<>>).out, v.ret.val))

\* the object loop after the colon token was taken
read_dict_colon(t, k, colon, e, err, cur) ==
  IF ~e.ok THEN Failed(colon.gen, e.out_err)
  ELSE read_dict_value(t, k, read(t, colon.gen, err), cur)

read_dict_expect_colon(t, k, colon, err, cur) ==
  read_dict_colon(t, k, colon, fn_is_expected(t, colon.ret, <<":">>, err), err, cur)

\* the object loop after the key token was taken
read_dict_key(t, k, err, cur) ==
  IF k.ret.type # "STRING" THEN Failed(k.gen, fn_err(t, k.ret, S_STRING))
  ELSE read_dict_expect_colon(t, k, NextNonWS(t, k.gen), err, cur)

\* one pass of the while loop of the object branch
read_dict_loop(t, tok_gen, err, cur) == read_dict_key(t, NextNonWS(t, tok_gen), err, cur)

\* the array loop after `cur[i] = std::move(v)`
read_list_comma(t, comma, e2, err, cur, i) ==
  IF TokEq(t, comma.ret, <<"]">>) THEN [ret |-> Ptr(cur), gen |-> comma.gen, out_err |-> err]
  ELSE IF ~e2.ok THEN Failed(comma.gen, e2.out_err)
  ELSE read_list_loop(t, comma.gen, err, cur, i + 1)

read_list_next(t, comma, err, cur, i) ==
  read_list_comma(t, comma, fn_is_expected(t, comma.ret, <<",">>, err), err, cur, i)

\* the array loop after the value was read
read_list_value(t, v, cur, i) ==
  IF v.ret.null THEN Failed(v.gen, v.out_err)
  ELSE read_list_next(t, NextNonWS(t, v.gen), v.out_err, index_assign(cur, i, v.ret.val), i)

\* one pass of the while loop of the array branch
read_list_loop(t, tok_gen, err, cur, i) == read_list_value(t, read(t, tok_gen, err), cur, i)

\* the object branch after the peek
read_dict(t, gen, peek, err, cur) ==
  IF TokEq(t, peek.ret, <<"}">>) THEN [ret |-> Ptr(cur), gen |-> peek.gen, out_err |-> err]
  ELSE read_dict_loop(t, gen, err, cur)

\* the array branch after the peek
read_list(t, gen, peek, err, cur) ==
  IF TokEq(t, peek.ret, <<"]">>) THEN [ret |-> Ptr(cur), gen |-> peek.gen, out_err |-> err]
  ELSE read_list_loop(t, gen, err, cur, 0)

\* the atom branch
read_atom(t, n, e, err) ==
  IF ~e.ok THEN Failed(n.gen, e.out_err)
  ELSE [ret |-> Ptr(set_val(NewVal, TokStr(t, n.ret))), gen |-> n.gen, out_err |-> err]

\* read after its first token was taken
read_tok(t, n, err) ==
  IF TokEq(t, n.ret, <<"{">>) THEN read_dict(t, n.gen, NextNonWS(t, n.gen), err, set_dict(NewVal))
  ELSE IF TokEq(t, n.ret, <<"[">>) THEN read_list(t, n.gen, NextNonWS(t, n.gen), err, set_list(NewVal))
  ELSE read_atom(t, n, fn_is_expected_any(t, n.ret, err), err)

\* read(TokenGen*, std::string*)
read(t, tok_gen, err) == read_tok(t, NextNonWS(t, tok_gen), err)

\* read(const char* begin, const char* end, std::string*): [ret, out_err]
read_range(t, err) ==
  LET r == read(t, TokenGen(t), err) IN [ret |-> r.ret, out_err |-> r.out_err]

\* ------------------------------------------------------------------------
\* write

\* the ASCII characters of the model's texts in code order: the order std::string's operator< compares by
Ascii ==
  <<"\t", "\n", "\r", " ", "!", "\"", "#", "$", "%", "&", "'", "(", ")", "*", "+", ",",
    "-", ".", "/", "0", "1", "2", "3", "4", "5", "6", "7", "8", "9", ":", ";", "<",
    "=", ">", "?", "@", "A", "B", "C", "D", "E", "F", "G", "H", "I", "J", "K", "L",
    "M", "N", "O", "P", "Q", "R", "S", "T", "U", "V", "W", "X", "Y", "Z", "[", "\\",
    "]", "^", "_", "a", "b", "c", "d", "e", "f", "g", "h", "i", "j", "k", "l",
    "m", "n", "o", "p", "q", "r", "s", "t", "u", "v", "w", "x", "y", "z", "{", "|",
    "}", "~">>

CharCode(c) == CHOOSE i \in 1..Len(Ascii) : Ascii[i] = c

RECURSIVE StrLess(_, _)
\* std::string's operator<
StrLess(a, b) ==
  IF b = <<>> THEN FALSE
  ELSE IF a = <<>> THEN TRUE
  ELSE IF Head(a) = Head(b) THEN StrLess(Tail(a), Tail(b))
  ELSE CharCode(Head(a)) < CharCode(Head(b))

RECURSIVE KeyOrder(_)
\* the order in which dict_ is iterated (tjson.h declares the container):
\* a function of the set of keys alone, here ascending
KeyOrder(K) ==
  IF K = {} THEN <<>>
  ELSE LET m == CHOOSE k \in K : \A j \in K \ {k} : StrLess(k, j)
       IN <<m>> \o KeyOrder(K \ {m})

INDENT_STEP == <<" ", " ", " ">>

RECURSIVE write(_, _), write_dict(_, _, _, _), write_list(_, _, _)

\* the for loop over d: keys is what is left to iterate
write_dict(d, keys, indent_plus, needsComma) ==
  IF keys = <<>> THEN <<>>
  ELSE (IF needsComma THEN <<",">> ELSE <<>>)
       \o <<NL>> \o indent_plus \o escape(Head(keys)) \o <<":", " ">>
       \o write(d[Head(keys)], indent_plus)
       \o write_dict(d, Tail(keys), indent_plus, TRUE)

\* the for loop over l
write_list(l, indent_plus, needsComma) ==
  IF l = <<>> THEN <<>>
  ELSE (IF needsComma THEN <<",">> ELSE <<>>)
       \o <<NL>> \o indent_plus
       \o write(Head(l), indent_plus)
       \o write_list(Tail(l), indent_plus, TRUE)

\* write(root, out, indent): the text appended to *out
write(v, indent) ==
  IF v.is_dict
  THEN IF DOMAIN v.dict = {} THEN <<"{", "}">>
       ELSE <<"{">> \o write_dict(v.dict, KeyOrder(DOMAIN v.dict), indent \o INDENT_STEP, FALSE)
            \o <<NL>> \o indent \o <<"}">>
  ELSE IF v.is_list
  THEN IF Len(v.list) = 0 THEN <<"[", "]">>
       ELSE <<"[">> \o write_list(v.list, indent \o INDENT_STEP, FALSE)
            \o <<NL>> \o indent \o <<"]">>
  ELSE v.val

\* ------------------------------------------------------------------------
\* Reading a text: the caller hands a text to read(begin, end, &err) with
\* err empty, and gets the tree and the error string back.

RECURSIVE Flatten(_)
Flatten(ps) == IF ps = <<>> THEN <<>> ELSE Head(ps) \o Flatten(Tail(ps))

SeqsUpTo(S, n) == UNION {[1..k -> S] : k \in 0..n}

Read ==
  /\ pc = "start"
  /\ LET r == read_range(text, out_err)
     IN /\ ret' = r.ret
        /\ out_err' = r.out_err
  /\ pc' = "done"
  /\ UNCHANGED <<in, text, root, out1, out2, op, acc>>

\* The texts of SpecRead: an opener that leaves the reader where a value is
\* expected, then up to MaxPieces pieces.
P_STR == <<QUOTE, "a", QUOTE>>
Pieces == {<<"{">>, <<"}">>, <<"[">>, <<"]">>, <<":">>, <<",">>, <<"a">>, P_STR, <<" ">>, <<"#">>}
O_NONE == <<>>
O_DICT == <<"{">> \o P_STR \o <<":">>
O_LIST == <<"[", "a", ",">>
O_DICT2 == <<"{">> \o P_STR \o <<":", "a", ",">>
Openers == {O_NONE, O_DICT, O_LIST, O_DICT2}
MaxPieces == 3

InitRead ==
  /\ in \in [opener : Openers, pieces : SeqsUpTo(Pieces, MaxPieces)]
  /\ text = in.opener \o Flatten(in.pieces)
  /\ pc = "start"
  /\ ret = Nullptr
  /\ out_err = <<>>
  /\ root = NewVal
  /\ out1 = <<>>
  /\ out2 = <<>>
  /\ op = [name |-> "none"]
  /\ acc = NewVal

NextRead == Read

SpecRead == InitRead /\ [][NextRead]_vars

\* C2: read returns either a tree and an empty error, or null and a
\* non-empty error, never a tree with an error nor null without one.
C2_TreeXorError ==
  pc = "done" => (ret.null <=> out_err # <<>>)

C2_Witness ==
  /\ pc = "done"
  /\ in.opener = O_DICT2
  /\ ret.null
  /\ out_err # <<>>

RECURSIVE FirstNonWS(_)
\* the first piece that is not whitespace, <<>> when there is none
FirstNonWS(ps) ==
  IF ps = <<>> THEN <<>>
  ELSE IF Head(ps) = <<" ">> THEN FirstNonWS(Tail(ps))
  ELSE Head(ps)

\* C3: a text with an unrecognized character anywhere, also after a
\* complete first value, makes read return null and a non-empty error.
C3_MalformedAnywhereFails ==
  (pc = "done" /\ \E i \in 1..Len(in.pieces) : in.pieces[i] = <<"#">>)
    => (ret.null /\ out_err # <<>>)

\* C4: a ',' inside an object or array followed, whitespace aside, by the
\* closing bracket makes read return null and a non-empty error, whatever
\* follows the bracket.
C4_TrailingCommaFails ==
  (/\ pc = "done"
   /\ \/ in.opener = O_LIST /\ FirstNonWS(in.pieces) = <<"]">>
      \/ in.opener = O_DICT2 /\ FirstNonWS(in.pieces) = <<"}">>)
    => (ret.null /\ out_err # <<>>)

\* C5: where a value is expected and the next token is '}', ']', ':', ','
\* or Malformed, read fails and makes no scalar of that token.
C5_AtomIsStringOrWord ==
  (/\ pc = "done"
   /\ in.opener \in {O_NONE, O_DICT, O_LIST}
   /\ FirstNonWS(in.pieces) \in {<<"}">>, <<"]">>, <<":">>, <<",">>, <<"#">>, <<>>})
    => (ret.null /\ out_err # <<>>)

\* ------------------------------------------------------------------------
\* Object texts with repeated keys

Scalar(s) == [is_dict |-> FALSE, is_list |-> FALSE, dict |-> <<>>, list |-> <<>>, val |-> s]

\* key tokens with the key each stands for, values with the tree each is
DupKeys ==
  {[text |-> P_STR, key |-> <<"a">>],
   [text |-> <<QUOTE, BSLASH, "a", QUOTE>>, key |-> <<"a">>],
   [text |-> <<QUOTE, "b", QUOTE>>, key |-> <<"b">>]}
DupVals ==
  {[text |-> <<"1">>, val |-> Scalar(<<"1">>)],
   [text |-> <<"2">>, val |-> Scalar(<<"2">>)],
   [text |-> <<"[", "1", "]">>,
    val |-> [is_dict |-> FALSE, is_list |-> TRUE, dict |-> <<>>,
             list |-> <<Scalar(<<"1">>)>>, val |-> <<>>]],
   [text |-> <<"{", "}">>,
    val |-> [is_dict |-> TRUE, is_list |-> FALSE, dict |-> <<>>, list |-> <<>>, val |-> <<>>]]}
MaxPairs == 3

RECURSIVE Entries(_, _)
Entries(pairs, sep) ==
  IF pairs = <<>> THEN <<>>
  ELSE sep \o Head(pairs).k.text \o sep \o <<":">> \o sep \o Head(pairs).v.text \o sep
       \o (IF Tail(pairs) = <<>> THEN <<>> ELSE <<",">>) \o Entries(Tail(pairs), sep)

InitDup ==
  /\ in \in [pairs : SeqsUpTo([k : DupKeys, v : DupVals], MaxPairs) \ {<<>>},
             sep : {<<>>, <<" ">>}]
  /\ text = <<"{">> \o Entries(in.pairs, in.sep) \o <<"}">>
  /\ pc = "start"
  /\ ret = Nullptr
  /\ out_err = <<>>
  /\ root = NewVal
  /\ out1 = <<>>
  /\ out2 = <<>>
  /\ op = [name |-> "none"]
  /\ acc = NewVal

SpecDup == InitDup /\ [][Read]_vars

LastAt(pairs, key) ==
  CHOOSE i \in 1..Len(pairs) :
    /\ pairs[i].k.key = key
    /\ \A j \in (i + 1)..Len(pairs) : pairs[j].k.key # key

\* C6: the Object read from a text with repeated keys has one entry per
\* key, holding the value of the key's last occurrence; no error.
C6_LastWriteWins ==
  pc = "done" =>
    /\ ~ret.null
    /\ out_err = <<>>
    /\ ret.val.is_dict /\ ~ret.val.is_list
    /\ DOMAIN ret.val.dict = {in.pairs[i].k.key : i \in 1..Len(in.pairs)}
    /\ \A key \in DOMAIN ret.val.dict :
         ret.val.dict[key] = in.pairs[LastAt(in.pairs, key)].v.val

C6_Witness ==
  /\ pc = "done"
  /\ Len(in.pairs) = 3
  /\ in.pairs[1].k.text = P_STR
  /\ in.pairs[2].k.key = <<"b">>
  /\ in.pairs[3].k.text = <<QUOTE, BSLASH, "a", QUOTE>>
  /\ in.pairs[1].v.val # in.pairs[3].v.val
  /\ ret.val.dict[<<"a">>] = in.pairs[3].v.val

\* ------------------------------------------------------------------------
\* Texts with a wrong token where ':' or ',' is required

MaxWs == 2
WsRuns == SeqsUpTo({" ", NL}, MaxWs)
LONG_WORD ==
  <<"x", "x", "x", "x", "x", "x", "x", "x", "x", "x", "x",
    "x", "x", "x", "x", "x", "x", "x", "x", "x", "x", "x">>
ErrToks == {<<"b">>, LONG_WORD, P_STR, <<"{">>, <<"[">>, <<"#">>, <<>>}
ErrSuffixes == {<<>>, <<" ", "a">>, <<NL, "}">>}

\* the text before the offending token
ErrPrefix(i) ==
  IF i.ctx = "colon" THEN i.ws1 \o <<"{">> \o P_STR \o i.ws2
  ELSE IF i.ctx = "dict" THEN i.ws1 \o <<"{">> \o P_STR \o <<":">> \o P_STR \o i.ws2
  ELSE i.ws1 \o <<"[">> \o P_STR \o i.ws2

InitErr ==
  /\ in \in [ctx : {"colon", "dict", "list"}, ws1 : WsRuns, ws2 : WsRuns,
             tok : ErrToks, suffix : ErrSuffixes]
  /\ in.tok = <<>> => in.suffix = <<>>
  /\ text = ErrPrefix(in) \o in.tok \o in.suffix
  /\ pc = "start"
  /\ ret = Nullptr
  /\ out_err = <<>>
  /\ root = NewVal
  /\ out1 = <<>>
  /\ out2 = <<>>
  /\ op = [name |-> "none"]
  /\ acc = NewVal

SpecErr == InitErr /\ [][Read]_vars

Contains(s, sub) ==
  \E k \in 0..(Len(s) - Len(sub)) : SubSeq(s, k + 1, k + Len(sub)) = sub

CountNL(s) == Cardinality({k \in 1..Len(s) : s[k] = NL})

\* the characters after the last newline of s
SinceNL(s) ==
  IF CountNL(s) = 0 THEN Len(s)
  ELSE Len(s) - (CHOOSE k \in 1..Len(s) : s[k] = NL /\ \A j \in (k + 1)..Len(s) : s[j] # NL)

\* the offending token's text: a Malformed token runs to the end of the text
ErrTokText(i) == IF i.tok \in {<<"#">>, <<>>} THEN i.tok \o i.suffix ELSE i.tok

Cut20(s) == IF Len(s) > 20 THEN SubSeq(s, 1, 20) ELSE s

\* C10: a wrong token where ':' or ',' is required makes read fail with a
\* message holding the token's line (1 + newlines before it) and column
\* (1 + characters since the last newline), the expected token in quotes
\* and the token's text cut to 20 characters.
C10_PositionedError ==
  pc = "done" =>
    /\ ret.null
    /\ Contains(out_err, <<"L">> \o Dec(1 + CountNL(ErrPrefix(in))) \o <<":">>
                         \o Dec(1 + SinceNL(ErrPrefix(in))) \o <<":">>)
    /\ Contains(out_err, <<"E", "x", "p", "e", "c", "t", "e", "d", " ", QUOTE>>
                         \o (IF in.ctx = "colon" THEN <<":">> ELSE <<",">>) \o <<QUOTE, ",">>)
    /\ Contains(out_err, <<":", " ", QUOTE>> \o Cut20(ErrTokText(in)) \o <<QUOTE, ".">>)

C10_Witness ==
  /\ pc = "done"
  /\ in.ctx = "colon"
  /\ in.ws1 = <<>>
  /\ in.ws2 = <<" ">>
  /\ in.tok = LONG_WORD
  /\ ret.null
  /\ Contains(out_err, <<"L", "1", ":", "6", ":">>)

\* ------------------------------------------------------------------------
\* escape and unescape on strings

EscChars == {"a", "1", ".", QUOTE, BSLASH}
MaxStr == 4

\* what *out holds before unescape is called
OUT0 == <<"o", "l", "d">>

InitEsc ==
  /\ in \in SeqsUpTo(EscChars, MaxStr)
  /\ text = <<>>
  /\ pc = "start"
  /\ ret = [ok |-> FALSE, out |-> OUT0]
  /\ out_err = <<>>
  /\ root = NewVal
  /\ out1 = <<>>
  /\ out2 = <<>>
  /\ op = [name |-> "none"]
  /\ acc = NewVal

\* text = escape(in)
Escape ==
  /\ pc = "start"
  /\ text' = escape(in)
  /\ pc' = "escaped"
  /\ UNCHANGED <<in, ret, out_err, root, out1, out2, op, acc>>

\* ok = unescape(text, &out) on the escaped text
UnescapeEscaped ==
  /\ pc = "escaped"
  /\ ret' = unescape(text, ret.out)
  /\ pc' = "roundtrip"
  /\ UNCHANGED <<in, text, out_err, root, out1, out2, op, acc>>

\* ok = unescape(in, &out) on the string as it is
Unescape ==
  /\ pc = "start"
  /\ ret' = unescape(in, ret.out)
  /\ pc' = "unescaped"
  /\ UNCHANGED <<in, text, out_err, root, out1, out2, op, acc>>

NextEsc == Escape \/ UnescapeEscaped \/ Unescape

SpecEsc == InitEsc /\ [][NextEsc]_vars

RECURSIVE TrailingBackslashes(_, _)
\* the length of the run of backslashes that ends at index i of s
TrailingBackslashes(s, i) ==
  IF i >= 2 /\ s[i] = BSLASH THEN 1 + TrailingBackslashes(s, i - 1) ELSE 0

\* a backslash right before the closing quote that no backslash escapes
Dangling(s) == TrailingBackslashes(s, Len(s) - 1) % 2 = 1

\* C9: unescape(escape(s)) = (true, s) for s without quote and backslash;
\* unescape fails, leaving the output untouched, exactly when the input is
\* shorter than 2, is not quoted at both ends, or has a dangling backslash
\* before the closing quote.
C9_EscapeRoundTrip ==
  /\ (pc = "roundtrip" /\ \A k \in 1..Len(in) : in[k] \notin {QUOTE, BSLASH})
       => ret = [ok |-> TRUE, out |-> in]
  /\ pc = "unescaped" =>
       /\ ~ret.ok <=> (\/ Len(in) < 2
                       \/ in[1] # QUOTE
                       \/ in[Len(in)] # QUOTE
                       \/ Dangling(in))
       /\ ~ret.ok => ret.out = OUT0

C9_Witness ==
  /\ pc = "unescaped"
  /\ in = <<QUOTE, BSLASH, BSLASH, QUOTE>>
  /\ ret = [ok |-> TRUE, out |-> <<BSLASH>>]

\* ------------------------------------------------------------------------
\* Building a tree with the mutating accessors, then write, read, write.
\* A path is the chain of references the caller holds from the root to a
\* node: <<"k", key>> steps into dict[key], <<"i", i>> into list[i + 1].

RECURSIVE NodeAt(_, _)
NodeAt(v, path) ==
  IF path = <<>> THEN v
  ELSE IF Head(path)[1] = "k" THEN NodeAt(v.dict[Head(path)[2]], Tail(path))
  ELSE NodeAt(v.list[Head(path)[2] + 1], Tail(path))

RECURSIVE UpdateAt(_, _, _)
UpdateAt(v, path, n) ==
  IF path = <<>> THEN n
  ELSE IF Head(path)[1] = "k"
       THEN [v EXCEPT !.dict[Head(path)[2]] = UpdateAt(@, Tail(path), n)]
       ELSE [v EXCEPT !.list[Head(path)[2] + 1] = UpdateAt(@, Tail(path), n)]

RECURSIVE Paths(_)
Paths(v) ==
  {<<>>}
  \cup UNION {{<<<<"k", k>>>> \o q : q \in Paths(v.dict[k])} : k \in DOMAIN v.dict}
  \cup UNION {{<<<<"i", j - 1>>>> \o q : q \in Paths(v.list[j])} : j \in 1..Len(v.list)}

RECURSIVE NodeCount(_)
NodeCount(v) == Cardinality(Paths(v))

Keys == {<<"a">>, <<QUOTE, BSLASH>>}
Scalars == {<<"1">>, P_STR}
MaxNodes == 4
MaxIndex == 2

InitTree ==
  /\ in = <<>>
  /\ text = <<>>
  /\ pc = "build"
  /\ ret = Nullptr
  /\ out_err = <<>>
  /\ root = NewVal
  /\ out1 = <<>>
  /\ out2 = <<>>
  /\ op = [name |-> "none"]
  /\ acc = NewVal

\* node[k] on the node at path p
KeyAccess(p, k) ==
  /\ pc = "build"
  /\ LET n == NodeAt(root, p)
         n2 == key_access(n, k)
     IN /\ root' = UpdateAt(root, p, n2)
        /\ acc' = n2.dict[k]
        /\ op' = [name |-> "key", path |-> p, from_list |-> Len(n.list)]
  /\ NodeCount(root') <= MaxNodes
  /\ UNCHANGED <<pc, in, text, ret, out_err, out1, out2>>

\* node[i] on the node at path p
IndexAccess(p, i) ==
  /\ pc = "build"
  /\ LET n == NodeAt(root, p)
         n2 == index_access(n, i)
     IN /\ root' = UpdateAt(root, p, n2)
        /\ acc' = n2.list[i + 1]
        /\ op' = [name |-> "index", path |-> p, idx |-> i, pre |-> n]
  /\ NodeCount(root') <= MaxNodes
  /\ UNCHANGED <<pc, in, text, ret, out_err, out1, out2>>

\* node.val() = s on the node at path p
SetVal(p, s) ==
  /\ pc = "build"
  /\ LET n == NodeAt(root, p)
     IN root' = UpdateAt(root, p, set_val(n, s))
  /\ op' = [name |-> "val"]
  /\ acc' = NewVal
  /\ UNCHANGED <<pc, in, text, ret, out_err, out1, out2>>

\* node.reset() on the node at path p
Reset(p) ==
  /\ pc = "build"
  /\ LET n == NodeAt(root, p)
     IN root' = UpdateAt(root, p, reset(n))
  /\ op' = [name |-> "reset"]
  /\ acc' = NewVal
  /\ UNCHANGED <<pc, in, text, ret, out_err, out1, out2>>

\* write(root, &out1, "")
Write ==
  /\ pc = "build"
  /\ out1' = write(root, <<>>)
  /\ pc' = "written"
  /\ op' = [name |-> "write"]
  /\ acc' = NewVal
  /\ UNCHANGED <<in, text, ret, out_err, root, out2>>

\* read(out1.begin, out1.end, &out_err)
ReadBack ==
  /\ pc = "written"
  /\ text' = out1
  /\ LET r == read_range(out1, out_err)
     IN /\ ret' = r.ret
        /\ out_err' = r.out_err
  /\ pc' = "read"
  /\ UNCHANGED <<in, root, out1, out2, op, acc>>

\* write(*ret, &out2, "")
Rewrite ==
  /\ pc = "read"
  /\ ~ret.null
  /\ out2' = write(ret.val, <<>>)
  /\ pc' = "rewritten"
  /\ UNCHANGED <<in, text, ret, out_err, root, out1, op, acc>>

NextTree ==
  \/ \E p \in Paths(root) : \E k \in Keys : KeyAccess(p, k)
  \/ \E p \in Paths(root) : \E i \in 0..MaxIndex : IndexAccess(p, i)
  \/ \E p \in Paths(root) : \E s \in Scalars : SetVal(p, s)
  \/ \E p \in Paths(root) : Reset(p)
  \/ Write
  \/ ReadBack
  \/ Rewrite

SpecTree == InitTree /\ [][NextTree]_vars

IsAtom(s) ==
  LET n == Next(s, TokenGen(s))
  IN n.ret.type \in {"STRING", "WORD"} /\ n.ret.end = Len(s) + 1

RECURSIVE AtomTree(_)
\* every scalar the writer reaches holds one STRING or WORD token
AtomTree(v) ==
  IF v.is_dict THEN \A k \in DOMAIN v.dict : AtomTree(v.dict[k])
  ELSE IF v.is_list THEN \A j \in 1..Len(v.list) : AtomTree(v.list[j])
  ELSE IsAtom(v.val)

C7_IndexExtends ==
  (op.name = "index" /\ op.pre.is_list) =>
    LET old == op.pre.list
        new == NodeAt(root, op.path).list
        n == Len(old)
        i == op.idx
    IN IF i >= n
       THEN /\ Len(new) = i + 1
            /\ \A j \in n..i :
                 new[j + 1] = [is_dict |-> FALSE, is_list |-> FALSE, dict |-> <<>>,
                               list |-> <<>>, val |-> <<>>]
            /\ \A j \in 0..(n - 1) : new[j + 1] = old[j + 1]
       ELSE /\ new = old
            /\ acc = old[i + 1]

C7_Witness ==
  /\ op.name = "index"
  /\ op.pre.is_list
  /\ Len(op.pre.list) = 1
  /\ op.pre.list[1].val = <<"1">>
  /\ op.idx = 2
  /\ Len(NodeAt(root, op.path).list) = 3

ExactlyOneMode(v) ==
  /\ ~(v.is_dict /\ v.is_list)
  /\ ~(DOMAIN v.dict # {} /\ Len(v.list) > 0)
  /\ DOMAIN v.dict # {} => v.is_dict
  /\ Len(v.list) > 0 => v.is_list
  /\ v.val # <<>> => (~v.is_dict /\ ~v.is_list)

====
